---- MODULE Spec2Model ----
(***************************************************************************)
(* Conversation tree / branch engine of the chat service                   *)
(* (src/server/routes/version.js, "Chat Service", schema v2).              *)
(*                                                                         *)
(* One chat document is modelled: the persisted chat.json of one chat id.  *)
(* Message ids are the integers handed out by generateMessageId (a fresh   *)
(* id on every call), branch ids those handed out by generateBranchId;     *)
(* BranchMain stands for the reserved id 'branch-main'.                    *)
(*                                                                         *)
(* Of a message the model keeps id, parentId and role, of a branch id,     *)
(* forkPointMessageId, tipMessageId and isActive.  content, timestamps,    *)
(* titles and branch names are written but never read by the operations    *)
(* below, so updateBranch (rename only) validates its branch id and leaves *)
(* the modelled part of the document as it is.                             *)
(*                                                                         *)
(* The document lives in <id>/chat.json; chatJson says whether that file   *)
(* exists, legacyFile holds the old flat file <id>.json when there is one, *)
(* legacyDirFile the file of the chat in config/prompts/chats.              *)
(*                                                                         *)
(* Spec runs every handler as one step, which is how a single Node process *)
(* runs them (all file access is synchronous).  The later specifications   *)
(* look inside: SpecMigration at the file operations of the two layout     *)
(* migrations with a process crash between any two of them, SpecTwoChats   *)
(* and SpecRace at the read and the write of handlers run by two writers,  *)
(* SpecTurns at the turn directories, SpecTitle at the chat's title.       *)
(***************************************************************************)
EXTENDS Integers, Sequences, FiniteSets, TLC

\* ---------------------------------------------------------------- bounds
MaxMessages == 3          \* message ids the generator may hand out
MaxBranches == 3          \* branch ids the generator may hand out
MaxLegacyMessages == 3    \* longest v1 messages array in an initial document

\* ------------------------------------------------------------- constants
CURRENT_SCHEMA_VERSION == 2
LegacySchemaVersion == 1
Null == 0                 \* JavaScript null (message ids start at 1)
Undefined == -1           \* JavaScript undefined / an option that is not passed
BranchMain == 0           \* the branch id 'branch-main'

Roles == {"user", "assistant"}

\* Titles a chat can carry.  createChat's placeholder is
\* `Chat ${new Date().toLocaleDateString()}`; the content of a message is not
\* modelled, FirstWordsTitle is the title addMessage makes of it.
DefaultTitle == "Chat 11/1/2026"
GivenTitle == "Notes"
GivenChatTitle == "Chat notes"
FirstWordsTitle == "first words"
NoTitle == ""             \* no title passed (null), no document
Titles == {DefaultTitle, GivenTitle, GivenChatTitle, FirstWordsTitle}

\* The processes that may run handlers side by side.
Writers == {1, 2}

VARIABLES
    schemaVersion,     \* chat.schemaVersion of the persisted document
    legacyMessages,    \* v1 document: chat.messages as an ordered array (of roles)
    messages,          \* v2 document: chat.messages, id -> [parentId, role]
    branches,          \* v2 document: chat.branches, in insertion order
    activeBranchId,    \* v2 document: chat.activeBranchId
    nextMessageId,     \* next id generateMessageId returns
    nextBranchId,      \* next id generateBranchId returns
    chatJson,          \* whether <id>/chat.json exists (the document above)
    legacyFile,        \* the flat file <id>.json: {} or {its messages array}
    title,             \* chat.title
    legacyDirFile,     \* config/prompts/chats/<id>.json: {} or {its messages array}
    pc,                \* where the serving process is in initialize, listChats or getChat
    pending,           \* per writer: the handler it is in, with the document it read
    otherChat,         \* the document of a second chat id
    turns              \* turns/<NNNN>/request.json: turn number -> what was logged

vars == <<schemaVersion, legacyMessages, messages, branches, activeBranchId,
          nextMessageId, nextBranchId, chatJson, legacyFile, title,
          legacyDirFile, pc, pending, otherChat, turns>>

\* What the handlers of the chat document never touch.
aux == <<legacyDirFile, pc, pending, otherChat, turns>>

\* ------------------------------------------------------------ id sources
generateMessageId(n) == n
generateBranchId(n) == n

\* ------------------------------------------------------------- documents
NoMessages == [i \in {} |-> [parentId |-> Null, role |-> "user"]]

MainBranch(tip) ==
    [id |-> BranchMain, forkPointMessageId |-> Null,
     tipMessageId |-> tip, isActive |-> TRUE]

\* The loop of migrateToTreeStructure never advancing prevId: every converted
\* message becomes a root.
RECURSIVE MigrateLoop_AllRoots(_, _, _, _, _)
MigrateLoop_AllRoots(arr, i, nextId, prevId, messagesObj) ==
    IF i > Len(arr)
    THEN [messages |-> messagesObj,
          prevId |-> IF Len(arr) = 0 THEN Null ELSE generateMessageId(nextId - 1),
          nextMessageId |-> nextId]
    ELSE LET id == generateMessageId(nextId)
         IN  MigrateLoop_AllRoots(arr, i + 1, nextId + 1, prevId,
                 [k \in DOMAIN messagesObj \cup {id} |->
                     IF k = id THEN [parentId |-> prevId, role |-> arr[i]]
                               ELSE messagesObj[k]])

\* The loop of migrateToTreeStructure: one fresh id per array entry, each
\* message's parent is the previously converted message.
RECURSIVE MigrateLoop(_, _, _, _, _)
MigrateLoop(arr, i, nextId, prevId, messagesObj) ==
    IF i > Len(arr)
    THEN [messages |-> messagesObj, prevId |-> prevId, nextMessageId |-> nextId]
    ELSE LET id == generateMessageId(nextId)
         IN  MigrateLoop(arr, i + 1, nextId + 1, id,
                 [k \in DOMAIN messagesObj \cup {id} |->
                     IF k = id THEN [parentId |-> prevId, role |-> arr[i]]
                               ELSE messagesObj[k]])

\* migrateToTreeStructure leaving the schema version of the document as it was.
migrateToTreeStructure_KeepsVersion(chat) ==
    IF chat.schemaVersion = CURRENT_SCHEMA_VERSION
    THEN chat
    ELSE LET r == MigrateLoop(chat.legacyMessages, 1, chat.nextMessageId, Null, NoMessages)
         IN  [schemaVersion  |-> chat.schemaVersion,
              legacyMessages |-> chat.legacyMessages,
              messages       |-> r.messages,
              branches       |-> <<MainBranch(r.prevId)>>,
              activeBranchId |-> BranchMain,
              nextMessageId  |-> r.nextMessageId,
              nextBranchId   |-> chat.nextBranchId]

migrateToTreeStructure(chat) ==
    IF chat.schemaVersion = CURRENT_SCHEMA_VERSION
    THEN chat
    ELSE LET r == MigrateLoop(chat.legacyMessages, 1, chat.nextMessageId, Null, NoMessages)
         IN  [schemaVersion  |-> CURRENT_SCHEMA_VERSION,
              legacyMessages |-> <<>>,
              messages       |-> r.messages,
              branches       |-> <<MainBranch(r.prevId)>>,
              activeBranchId |-> BranchMain,
              nextMessageId  |-> r.nextMessageId,
              nextBranchId   |-> chat.nextBranchId]

\* The persisted document together with the id generator's position.
Stored ==
    [schemaVersion  |-> schemaVersion,
     legacyMessages |-> legacyMessages,
     messages       |-> messages,
     branches       |-> branches,
     activeBranchId |-> activeBranchId,
     nextMessageId  |-> nextMessageId,
     nextBranchId   |-> nextBranchId]

\* ------------------------------------------------------------------ files
\* The two places a chat can be stored in.
FileStore == [legacyFile |-> legacyFile, chatJson |-> chatJson]

\* chatExists(chatId): the folder's chat.json or the flat file is there.
chatExists(store) == store.chatJson \/ store.legacyFile # {}

\* migrateChatToFolder: the flat file becomes <id>/chat.json.
migrateChatToFolder(store) ==
    IF store.legacyFile = {}
    THEN store
    ELSE [legacyFile |-> {}, chatJson |-> TRUE]

\* The head of getChat: a flat file is moved into the folder when the folder
\* has no chat.json yet.
openChat(store) ==
    IF store.legacyFile # {} /\ ~store.chatJson
    THEN migrateChatToFolder(store)
    ELSE store

\* getChat(chatId) !== null.
chatFound == openChat(FileStore).chatJson

\* The flat file read as a document: the old format holds its messages as an array.
LegacyFileDocument ==
    [schemaVersion  |-> LegacySchemaVersion,
     legacyMessages |-> CHOOSE arr \in legacyFile : TRUE,
     messages       |-> NoMessages,
     branches       |-> <<>>,
     activeBranchId |-> Undefined,
     nextMessageId  |-> nextMessageId,
     nextBranchId   |-> nextBranchId]

\* JSON.parse(fs.readFileSync(chatPath)) after the head of getChat.
readChatJson ==
    IF legacyFile # {} /\ ~chatJson THEN LegacyFileDocument ELSE Stored

\* getChat: reads chat.json and migrates a v1 document (the caller of
\* getChat always finds the migrated document written back).
getChat ==
    IF readChatJson.schemaVersion # CURRENT_SCHEMA_VERSION
    THEN migrateToTreeStructure(readChatJson)
    ELSE readChatJson

\* The document chat becomes the content of <id>/chat.json.
writeDocument(chat) ==
    /\ schemaVersion' = chat.schemaVersion
    /\ legacyMessages' = chat.legacyMessages
    /\ messages' = chat.messages
    /\ branches' = chat.branches
    /\ activeBranchId' = chat.activeBranchId
    /\ nextMessageId' = chat.nextMessageId
    /\ nextBranchId' = chat.nextBranchId

\* A handler's getChat followed by its
\* fs.writeFileSync(chatPath, JSON.stringify(chat)), chat.title being newTitle.
persist(chat, newTitle) ==
    /\ writeDocument(chat)
    /\ chatJson' = TRUE
    /\ legacyFile' = openChat(FileStore).legacyFile
    /\ title' = newTitle

saveChat(chat, newTitle) ==
    /\ persist(chat, newTitle)
    /\ UNCHANGED aux

\* The same for a handler that leaves chat.title alone.
writeChat(chat) == saveChat(chat, title)

\* ------------------------------------------------------- tree traversal
\* getMessagePath: ids from root to messageId.  The loop pushes currentId
\* before it looks the message up, so an id that is absent from the map
\* ends up at the head of the path.
RECURSIVE WalkUp(_, _)
WalkUp(msgs, currentId) ==
    IF currentId = Null \/ currentId = Undefined
    THEN <<>>
    ELSE IF currentId \in DOMAIN msgs
         THEN Append(WalkUp(msgs, msgs[currentId].parentId), currentId)
         ELSE <<currentId>>

getMessagePath(chat, messageId) ==
    IF messageId = Null \/ messageId = Undefined \/ messageId \notin DOMAIN chat.messages
    THEN <<>>
    ELSE WalkUp(chat.messages, messageId)

\* chat.messages[id] as a value: the message, or undefined.
UndefinedMessage == [id |-> Undefined, parentId |-> Undefined, role |-> "undefined"]

MessageAt(chat, id) ==
    IF id \in DOMAIN chat.messages
    THEN [id |-> id, parentId |-> chat.messages[id].parentId, role |-> chat.messages[id].role]
    ELSE UndefinedMessage

\* chat.branches.findIndex(b => b.id === branchId); 0 when there is none.
findBranchIndex(chat, branchId) ==
    IF \E i \in 1..Len(chat.branches) : chat.branches[i].id = branchId
    THEN CHOOSE i \in 1..Len(chat.branches) :
            /\ chat.branches[i].id = branchId
            /\ \A j \in 1..(i - 1) : chat.branches[j].id # branchId
    ELSE 0

getBranchMessages(chat, branchId) ==
    LET idx == findBranchIndex(chat, branchId)
    IN  IF idx = 0
        THEN <<>>
        ELSE LET path == getMessagePath(chat, chat.branches[idx].tipMessageId)
             IN  [i \in 1..Len(path) |-> MessageAt(chat, path[i])]

SeqToSet(s) == {s[i] : i \in 1..Len(s)}

\* ---------------------------------------------------------------- Init
\* Either createChat has just written a fresh v2 document, or chat.json is
\* a v1 document (messages as an array) that no getChat has read yet.
createChat ==
    /\ schemaVersion = CURRENT_SCHEMA_VERSION
    /\ legacyMessages = <<>>
    /\ messages = NoMessages
    /\ branches = <<MainBranch(Null)>>
    /\ activeBranchId = BranchMain

LegacyArrays == UNION {[1..n -> Roles] : n \in 0..MaxLegacyMessages}

LegacyDocument ==
    /\ schemaVersion = LegacySchemaVersion
    /\ legacyMessages \in LegacyArrays
    /\ messages = NoMessages
    /\ branches = <<>>
    /\ activeBranchId = Undefined

\* One serving process that has finished initialize, one chat, no turn logged.
NoPending == [w \in Writers |-> <<>>]
NoTurns == [n \in {} |-> Undefined]
Quiet ==
    /\ legacyDirFile = {}
    /\ pc = "ready"
    /\ pending = NoPending
    /\ otherChat = <<>>
    /\ turns = NoTurns

\* The chat was created with a title of its own.
Init ==
    /\ createChat \/ LegacyDocument
    /\ nextMessageId = 1
    /\ nextBranchId = 1
    /\ chatJson = TRUE
    /\ legacyFile = {}
    /\ title = GivenTitle
    /\ Quiet

\* ---------------------------------------------------------- chat lifecycle
\* The document createChat writes, without its main branch.
NewChat_NoBranches ==
    [schemaVersion  |-> CURRENT_SCHEMA_VERSION,
     legacyMessages |-> <<>>,
     messages       |-> NoMessages,
     branches       |-> <<>>,
     activeBranchId |-> BranchMain,
     nextMessageId  |-> nextMessageId,
     nextBranchId   |-> nextBranchId]

\* The document createChat writes (the id generators are not touched).
NewChat ==
    [schemaVersion  |-> CURRENT_SCHEMA_VERSION,
     legacyMessages |-> <<>>,
     messages       |-> NoMessages,
     branches       |-> <<MainBranch(Null)>>,
     activeBranchId |-> BranchMain,
     nextMessageId  |-> nextMessageId,
     nextBranchId   |-> nextBranchId]

\* deleteChat(chatId): the flat file is looked for first and, when found, is
\* all that is removed; otherwise the folder goes.
deleteChat(store) ==
    IF store.legacyFile # {}
    THEN [success |-> TRUE, store |-> [store EXCEPT !.legacyFile = {}]]
    ELSE IF ~store.chatJson
    THEN [success |-> FALSE, store |-> store]
    ELSE [success |-> TRUE, store |-> [store EXCEPT !.chatJson = FALSE]]

\* The document variables while there is no chat.json.
NoFile ==
    /\ schemaVersion = Undefined
    /\ legacyMessages = <<>>
    /\ messages = NoMessages
    /\ branches = <<>>
    /\ activeBranchId = Undefined

\* ----------------------------------------------------- message management
\* addMessage taking the active branch's tip as the default parent, whatever
\* branch it targets.
addMessage_ParentIsActiveTip(chat, role, parentIdOpt, branchIdOpt) ==
    LET targetBranchId == IF branchIdOpt = Undefined THEN chat.activeBranchId ELSE branchIdOpt
        idx == findBranchIndex(chat, targetBranchId)
        activeIdx == findBranchIndex(chat, chat.activeBranchId)
    IN  IF idx = 0
        THEN [success |-> FALSE, chat |-> chat, messageId |-> Undefined]
        ELSE LET parentId == IF parentIdOpt # Undefined THEN parentIdOpt
                             ELSE chat.branches[activeIdx].tipMessageId
                 msgId == generateMessageId(chat.nextMessageId)
             IN  [success |-> TRUE,
                  messageId |-> msgId,
                  chat |-> [chat EXCEPT
                      !.messages = [k \in DOMAIN chat.messages \cup {msgId} |->
                                      IF k = msgId THEN [parentId |-> parentId, role |-> role]
                                                   ELSE chat.messages[k]],
                      !.branches[idx].tipMessageId = msgId,
                      !.nextMessageId = chat.nextMessageId + 1]]

\* addMessage advancing the tip of every branch that sat on the parent, not
\* only the target's.
addMessage_MovesSharedTips(chat, role, parentIdOpt, branchIdOpt) ==
    LET targetBranchId == IF branchIdOpt = Undefined THEN chat.activeBranchId ELSE branchIdOpt
        idx == findBranchIndex(chat, targetBranchId)
    IN  IF idx = 0
        THEN [success |-> FALSE, chat |-> chat, messageId |-> Undefined]
        ELSE LET parentId == IF parentIdOpt # Undefined THEN parentIdOpt
                             ELSE chat.branches[idx].tipMessageId
                 msgId == generateMessageId(chat.nextMessageId)
             IN  [success |-> TRUE,
                  messageId |-> msgId,
                  chat |-> [chat EXCEPT
                      !.messages = [k \in DOMAIN chat.messages \cup {msgId} |->
                                      IF k = msgId THEN [parentId |-> parentId, role |-> role]
                                                   ELSE chat.messages[k]],
                      !.branches = [i \in 1..Len(chat.branches) |->
                          IF i = idx \/ chat.branches[i].tipMessageId = parentId
                          THEN [chat.branches[i] EXCEPT !.tipMessageId = msgId]
                          ELSE chat.branches[i]],
                      !.nextMessageId = chat.nextMessageId + 1]]

\* addMessage(chatId, {role}, {parentId, branchId}) on the document chat.
addMessage(chat, role, parentIdOpt, branchIdOpt) ==
    LET targetBranchId == IF branchIdOpt = Undefined THEN chat.activeBranchId ELSE branchIdOpt
        idx == findBranchIndex(chat, targetBranchId)
    IN  IF idx = 0
        THEN [success |-> FALSE, chat |-> chat, messageId |-> Undefined]
        ELSE LET parentId == IF parentIdOpt # Undefined THEN parentIdOpt
                             ELSE chat.branches[idx].tipMessageId
                 msgId == generateMessageId(chat.nextMessageId)
             IN  [success |-> TRUE,
                  messageId |-> msgId,
                  chat |-> [chat EXCEPT
                      !.messages = [k \in DOMAIN chat.messages \cup {msgId} |->
                                      IF k = msgId THEN [parentId |-> parentId, role |-> role]
                                                   ELSE chat.messages[k]],
                      !.branches[idx].tipMessageId = msgId,
                      !.nextMessageId = chat.nextMessageId + 1]]

\* The title step of addMessage: the first message of the map, when it is a
\* user message, names a chat whose title starts with 'Chat '.
startsWithChat(t) == t \in {DefaultTitle, GivenChatTitle}

autoTitle(t, r, role) ==
    IF /\ r.success
       /\ Cardinality(DOMAIN r.chat.messages) = 1
       /\ role = "user"
       /\ startsWithChat(t)
    THEN FirstWordsTitle
    ELSE t

\* clearMessages emptying the branches instead of replacing them.
clearMessages_KeepsBranches(chat) ==
    [success |-> TRUE,
     chat |-> [chat EXCEPT !.messages = NoMessages,
                           !.branches = [i \in 1..Len(chat.branches) |->
                               [chat.branches[i] EXCEPT !.tipMessageId = Null,
                                                        !.forkPointMessageId = Null]]]]

\* clearMessages(chatId).
clearMessages(chat) ==
    [success |-> TRUE,
     chat |-> [chat EXCEPT !.messages = NoMessages,
                           !.branches = <<MainBranch(Null)>>,
                           !.activeBranchId = BranchMain]]

\* ------------------------------------------------------------ read access
\* Array.prototype.slice(start): a negative start counts from the end, and
\* slice(-0) is slice(0).
sliceFrom(arr, start) ==
    LET len == Len(arr)
        from == IF start < 0
                THEN (IF len + start > 0 THEN len + start ELSE 0)
                ELSE (IF start < len THEN start ELSE len)
    IN  SubSeq(arr, from + 1, len)

\* Array.prototype.slice(0, end) for end >= 0.
sliceTo(arr, end) == SubSeq(arr, 1, IF end < Len(arr) THEN end ELSE Len(arr))

\* getMessages(chatId, {limit, offset, branchId}) on the document chat.
getMessages(chat, limit, offset, branchIdOpt) ==
    LET targetBranchId == IF branchIdOpt = Undefined THEN chat.activeBranchId ELSE branchIdOpt
        all == getBranchMessages(chat, targetBranchId)
        skipped == IF offset > 0 THEN sliceFrom(all, offset) ELSE all
        taken == IF limit # Undefined /\ limit # 0 THEN sliceTo(skipped, limit) ELSE skipped
    IN  [success |-> TRUE, messages |-> taken, total |-> Len(all), branchId |-> targetBranchId]

\* msg.role of an entry of getBranchMessages throws when the entry is undefined.
readsUndefined(branchMessages) ==
    \E i \in 1..Len(branchMessages) : branchMessages[i] = UndefinedMessage

\* msg.role === 'user' ? 'User' : 'Assistant'; the content is stood for by the id.
historyLine(msg) ==
    [prefix |-> IF msg.role = "user" THEN "User" ELSE "Assistant", id |-> msg.id]

DefaultMaxMessages == 20

\* getChatHistory(chatId, maxMessages = 20, branchId = null) on the document chat.
getChatHistory(chat, maxMessagesOpt, branchIdOpt) ==
    LET maxMessages == IF maxMessagesOpt = Undefined THEN DefaultMaxMessages ELSE maxMessagesOpt
        targetBranchId == IF branchIdOpt = Undefined THEN chat.activeBranchId ELSE branchIdOpt
        branchMessages == getBranchMessages(chat, targetBranchId)
        recentMessages == sliceFrom(branchMessages, 0 - maxMessages)
    IN  IF readsUndefined(recentMessages)
        THEN [threw |-> TRUE, lines |-> <<>>]
        ELSE [threw |-> FALSE,
              lines |-> [i \in 1..Len(recentMessages) |-> historyLine(recentMessages[i])]]

\* exportChat(chatId, format, branchId) on the document chat: the markdown
\* transcript of a branch, or the whole document as JSON.
exportChat(chat, format, branchIdOpt) ==
    LET targetBranchId == IF branchIdOpt = Undefined THEN chat.activeBranchId ELSE branchIdOpt
        branchMessages == getBranchMessages(chat, targetBranchId)
    IN  IF format = "markdown"
        THEN IF readsUndefined(branchMessages)
             THEN [threw |-> TRUE, success |-> FALSE, format |-> "markdown", content |-> <<>>]
             ELSE [threw |-> FALSE, success |-> TRUE, format |-> "markdown",
                   content |-> [i \in 1..Len(branchMessages) |-> historyLine(branchMessages[i])]]
        ELSE [threw |-> FALSE, success |-> TRUE, format |-> "json", content |-> <<chat>>]

\* getCurrentTurnNumber(chatId, branchId = null); found says whether getChat
\* returned a document.
getCurrentTurnNumber(found, chat, branchIdOpt) ==
    IF ~found
    THEN [threw |-> FALSE, turn |-> 0]
    ELSE LET targetBranchId == IF branchIdOpt = Undefined THEN chat.activeBranchId
                               ELSE branchIdOpt
             branchMsgs == getBranchMessages(chat, targetBranchId)
         IN  IF readsUndefined(branchMsgs)
             THEN [threw |-> TRUE, turn |-> 0]
             ELSE [threw |-> FALSE,
                   turn |-> Cardinality({i \in 1..Len(branchMsgs) : branchMsgs[i].role = "user"})]

\* Object.values(messages).filter(...): the matching ids in insertion order,
\* which is the order the ids were handed out in.
RECURSIVE inInsertionOrder(_)
inInsertionOrder(ids) ==
    IF ids = {}
    THEN <<>>
    ELSE LET first == CHOOSE m \in ids : \A k \in ids : m <= k
         IN  <<first>> \o inInsertionOrder(ids \ {first})

\* buildNode of getTreeStructure.
RECURSIVE buildNode(_, _)
buildNode(msgs, id) ==
    LET children == inInsertionOrder({m \in DOMAIN msgs : msgs[m].parentId = id})
    IN  [id |-> id,
         role |-> msgs[id].role,
         children |-> [i \in 1..Len(children) |-> buildNode(msgs, children[i])]]

\* getTreeStructure(chat): the nodes of the messages without a parent.
getTreeStructure(chat) ==
    LET roots == inInsertionOrder({m \in DOMAIN chat.messages :
                                      chat.messages[m].parentId = Null})
    IN  [i \in 1..Len(roots) |-> buildNode(chat.messages, roots[i])]

\* ------------------------------------------------------ branch management
\* createBranch starting the new branch empty instead of at its fork point.
createBranch_EmptyTip(chat, forkPointMessageId) ==
    IF /\ forkPointMessageId # Undefined
       /\ forkPointMessageId # Null
       /\ forkPointMessageId \notin DOMAIN chat.messages
    THEN [success |-> FALSE, chat |-> chat, branchId |-> Undefined]
    ELSE LET branchId == generateBranchId(chat.nextBranchId)
             fork == IF forkPointMessageId = Undefined THEN Null ELSE forkPointMessageId
             newBranch == [id |-> branchId,
                           forkPointMessageId |-> fork,
                           tipMessageId |-> Null,
                           isActive |-> FALSE]
         IN  [success |-> TRUE,
              branchId |-> branchId,
              chat |-> [chat EXCEPT !.branches = Append(chat.branches, newBranch),
                                    !.nextBranchId = chat.nextBranchId + 1]]

\* createBranch without the check of its fork point.
createBranch_AnyForkPoint(chat, forkPointMessageId) ==
    LET branchId == generateBranchId(chat.nextBranchId)
        fork == IF forkPointMessageId = Undefined THEN Null ELSE forkPointMessageId
        newBranch == [id |-> branchId,
                      forkPointMessageId |-> fork,
                      tipMessageId |-> fork,
                      isActive |-> FALSE]
    IN  [success |-> TRUE,
         branchId |-> branchId,
         chat |-> [chat EXCEPT !.branches = Append(chat.branches, newBranch),
                               !.nextBranchId = chat.nextBranchId + 1]]

\* createBranch(chatId, {forkPointMessageId}).
createBranch(chat, forkPointMessageId) ==
    IF /\ forkPointMessageId # Undefined
       /\ forkPointMessageId # Null
       /\ forkPointMessageId \notin DOMAIN chat.messages
    THEN [success |-> FALSE, chat |-> chat, branchId |-> Undefined]
    ELSE LET branchId == generateBranchId(chat.nextBranchId)
             fork == IF forkPointMessageId = Undefined THEN Null ELSE forkPointMessageId
             newBranch == [id |-> branchId,
                           forkPointMessageId |-> fork,
                           tipMessageId |-> fork,
                           isActive |-> FALSE]
         IN  [success |-> TRUE,
              branchId |-> branchId,
              chat |-> [chat EXCEPT !.branches = Append(chat.branches, newBranch),
                                    !.nextBranchId = chat.nextBranchId + 1]]

\* createBranch from its first line: found is getChat(chatId) !== null.
createBranchOf(found, chat, forkPointMessageId) ==
    IF ~found
    THEN [success |-> FALSE, chat |-> chat, branchId |-> Undefined]
    ELSE createBranch(chat, forkPointMessageId)

\* setActiveBranch activating the selected branch without deactivating the rest.
setActiveBranch_KeepsOthersActive(chat, branchId) ==
    IF findBranchIndex(chat, branchId) = 0
    THEN [success |-> FALSE, chat |-> chat]
    ELSE [success |-> TRUE,
          chat |-> [chat EXCEPT
              !.branches[findBranchIndex(chat, branchId)].isActive = TRUE,
              !.activeBranchId = branchId]]

\* setActiveBranch(chatId, branchId).
setActiveBranch(chat, branchId) ==
    IF findBranchIndex(chat, branchId) = 0
    THEN [success |-> FALSE, chat |-> chat]
    ELSE [success |-> TRUE,
          chat |-> [chat EXCEPT
              !.branches = [i \in 1..Len(chat.branches) |->
                  [chat.branches[i] EXCEPT !.isActive = (chat.branches[i].id = branchId)]],
              !.activeBranchId = branchId]]

\* updateBranch(chatId, branchId, {name}): only the name changes.
updateBranch(chat, branchId) ==
    LET branchIndex == findBranchIndex(chat, branchId)
    IN  IF branchIndex = 0
        THEN [success |-> FALSE, chat |-> chat]
        ELSE [success |-> TRUE, chat |-> chat]

\* branchPath.indexOf(id), 1-based; 0 when id is not on the path.
indexOf(path, id) ==
    IF \E i \in 1..Len(path) : path[i] = id
    THEN CHOOSE i \in 1..Len(path) :
            path[i] = id /\ \A j \in 1..(i - 1) : path[j] # id
    ELSE 0

\* usedByOther looking only at the other branches' tips, not at their paths.
usedByOther_TipsOnly(chat, branchId, msgId) ==
    \E i \in 1..Len(chat.branches) :
        /\ chat.branches[i].id # branchId
        /\ msgId = chat.branches[i].tipMessageId

\* chat.branches.some(b => b.id !== branchId && path(b.tip).includes(msgId)).
usedByOther(chat, branchId, msgId) ==
    \E i \in 1..Len(chat.branches) :
        /\ chat.branches[i].id # branchId
        /\ msgId \in SeqToSet(getMessagePath(chat, chat.branches[i].tipMessageId))

\* The for loop of deleteBranch over branchOnlyMessages.
RECURSIVE deleteBranchOnlyMessages(_, _, _, _)
deleteBranchOnlyMessages(chat, branchId, branchOnlyMessages, i) ==
    IF i > Len(branchOnlyMessages)
    THEN chat
    ELSE LET msgId == branchOnlyMessages[i]
             kept == IF usedByOther(chat, branchId, msgId)
                     THEN chat
                     ELSE [chat EXCEPT !.messages =
                              [k \in DOMAIN chat.messages \ {msgId} |-> chat.messages[k]]]
         IN  deleteBranchOnlyMessages(kept, branchId, branchOnlyMessages, i + 1)

\* branchPath.slice(forkIndex + 1): the messages after the fork point (the
\* whole path when the fork point is not on it, indexOf being -1 then).
branchOnlyMessagesOf(chat, branch) ==
    LET branchPath == getMessagePath(chat, branch.tipMessageId)
        forkIndex == indexOf(branchPath, branch.forkPointMessageId)
    IN  SubSeq(branchPath, forkIndex + 1, Len(branchPath))

\* The messages step of deleteBranch deleting whatever the flag says.
deleteUniqueMessages_IgnoresFlag(chat, branch, deleteMessages) ==
    IF branch.forkPointMessageId # Null
    THEN deleteBranchOnlyMessages(chat, branch.id, branchOnlyMessagesOf(chat, branch), 1)
    ELSE chat

\* The messages step of deleteBranch (deleteMessages && branch.forkPointMessageId).
deleteUniqueMessages(chat, branch, deleteMessages) ==
    IF deleteMessages /\ branch.forkPointMessageId # Null
    THEN deleteBranchOnlyMessages(chat, branch.id, branchOnlyMessagesOf(chat, branch), 1)
    ELSE chat

\* chat.branches.splice(branchIndex, 1).
splice(s, index) == [i \in 1..(Len(s) - 1) |-> IF i < index THEN s[i] ELSE s[i + 1]]

\* The tail of deleteBranch without the fall-back to main.
removeBranch_NoFallback(chat, branchIndex, branchId) ==
    [chat EXCEPT !.branches = splice(chat.branches, branchIndex)]

\* The tail of deleteBranch: drop the branch, fall back to main when the
\* deleted branch was the active one.
removeBranch(chat, branchIndex, branchId) ==
    LET rest == splice(chat.branches, branchIndex)
        mainIndex == indexOf([i \in 1..Len(rest) |-> rest[i].id], BranchMain)
    IN  IF chat.activeBranchId = branchId
        THEN [chat EXCEPT
                !.activeBranchId = BranchMain,
                !.branches = IF mainIndex = 0 THEN rest
                             ELSE [rest EXCEPT ![mainIndex].isActive = TRUE]]
        ELSE [chat EXCEPT !.branches = rest]

\* deleteBranch without its guard on the main branch.
isMainBranch_Never(branch) == FALSE

\* Cannot delete main branch.
isMainBranch(branch) == branch.id = BranchMain

\* deleteBranch(chatId, branchId, deleteMessages).
deleteBranch(chat, branchId, deleteMessages) ==
    LET branchIndex == findBranchIndex(chat, branchId)
    IN  IF branchIndex = 0
        THEN [success |-> FALSE, chat |-> chat]
        ELSE IF isMainBranch(chat.branches[branchIndex])
        THEN [success |-> FALSE, chat |-> chat]
        ELSE LET branch == chat.branches[branchIndex]
                 pruned == deleteUniqueMessages(chat, branch, deleteMessages)
             IN  [success |-> TRUE, chat |-> removeBranch(pruned, branchIndex, branchId)]

\* ----------------------------------------------------------------- inputs
\* Branch ids a caller can pass: 'branch-main' and every id generateBranchId
\* may hand out (of a branch of the chat, of a deleted one, of none yet).
BranchIds == {BranchMain} \cup (1..MaxBranches)
BranchIdOptions == {Undefined} \cup BranchIds
\* Message ids a caller can pass: the id of a message the chat has or once had.
KnownMessageIds(chat) == 1..(chat.nextMessageId - 1)
ParentIdOptions(chat) == {Null} \cup KnownMessageIds(chat)
ForkPointOptions(chat) == {Undefined} \cup KnownMessageIds(chat)

\* ---------------------------------------------------------------- actions
\* Every handler starts with getChat, which hands it the v2 document (a v1
\* document is migrated and written back first), and ends with writeChat.
\* A handler that returns {success: false} has written nothing else.
Loaded(chat) == chatFound /\ chat.schemaVersion = CURRENT_SCHEMA_VERSION

\* getChat alone, and with it every handler that only reads (getMessages,
\* getChatHistory, exportChat, getCurrentTurnNumber, the tree route): each
\* calls getChat and writes nothing after it.
ReadChat ==
    /\ Loaded(getChat)
    /\ writeChat(getChat)

\* addMessage without options.parentId.
AddMessage ==
    \E role \in Roles, branchIdOpt \in BranchIdOptions :
        LET chat == getChat
            r == addMessage(chat, role, Undefined, branchIdOpt)
        IN  /\ Loaded(chat)
            /\ chat.nextMessageId <= MaxMessages
            /\ saveChat(r.chat, autoTitle(title, r, role))

\* addMessage with an explicit options.parentId.
AddMessageWithParent ==
    \E role \in Roles, branchIdOpt \in BranchIdOptions :
        LET chat == getChat
        IN  \E parentIdOpt \in ParentIdOptions(chat) :
                LET r == addMessage(chat, role, parentIdOpt, branchIdOpt)
                IN  /\ Loaded(chat)
                    /\ chat.nextMessageId <= MaxMessages
                    /\ saveChat(r.chat, autoTitle(title, r, role))

ClearMessages ==
    /\ Loaded(getChat)
    /\ writeChat(clearMessages(getChat).chat)

CreateBranch ==
    LET chat == getChat
    IN  \E forkPointMessageId \in ForkPointOptions(chat) :
            /\ Loaded(chat)
            /\ chat.nextBranchId <= MaxBranches
            /\ writeChat(createBranch(chat, forkPointMessageId).chat)

SetActiveBranch ==
    \E branchId \in BranchIds :
        /\ Loaded(getChat)
        /\ writeChat(setActiveBranch(getChat, branchId).chat)

UpdateBranch ==
    \E branchId \in BranchIds :
        /\ Loaded(getChat)
        /\ writeChat(updateBranch(getChat, branchId).chat)

DeleteBranch ==
    \E branchId \in BranchIds, deleteMessages \in BOOLEAN :
        /\ Loaded(getChat)
        /\ writeChat(deleteBranch(getChat, branchId, deleteMessages).chat)

Next ==
    \/ ReadChat
    \/ AddMessage
    \/ AddMessageWithParent
    \/ ClearMessages
    \/ CreateBranch
    \/ SetActiveBranch
    \/ UpdateBranch
    \/ DeleteBranch

Spec == Init /\ [][Next]_vars

\* ------------------------------------------------- creation and deletion
\* createChat for the chat id under observation: generateChatId returns an
\* id no file exists for.
createTitle(titleOpt) == IF titleOpt = NoTitle THEN DefaultTitle ELSE titleOpt

CreateChat ==
    \E titleOpt \in {NoTitle, GivenTitle} :
        /\ ~chatExists(FileStore)
        /\ saveChat(NewChat, createTitle(titleOpt))

\* fs.rmSync(chatDir): no document is left.
rmChatDir ==
    /\ schemaVersion' = Undefined
    /\ legacyMessages' = <<>>
    /\ messages' = NoMessages
    /\ branches' = <<>>
    /\ activeBranchId' = Undefined

DeleteChat ==
    LET r == deleteChat(FileStore)
    IN  /\ r.success
        /\ legacyFile' = r.store.legacyFile
        /\ chatJson' = r.store.chatJson
        /\ IF chatJson /\ ~r.store.chatJson
           THEN rmChatDir
           ELSE UNCHANGED <<schemaVersion, legacyMessages, messages, branches, activeBranchId>>
        /\ title' = IF chatExists(r.store) THEN title ELSE NoTitle
        /\ UNCHANGED <<nextMessageId, nextBranchId>>
        /\ UNCHANGED aux

\* Flat files an installation may still hold.
LegacyFiles == {{}} \cup {{arr} : arr \in LegacyArrays}

\* Any combination of flat file and folder for the chat id, the folder's
\* document being fresh or still v1.
InitStorage ==
    /\ chatJson \in BOOLEAN
    /\ legacyFile \in LegacyFiles
    /\ IF chatJson THEN createChat \/ LegacyDocument ELSE NoFile
    /\ nextMessageId = 1
    /\ nextBranchId = 1
    /\ title = IF chatJson \/ legacyFile # {} THEN GivenTitle ELSE NoTitle
    /\ Quiet

\* The life of a chat from creation to deletion, on its main branch.
NextStorage ==
    \/ CreateChat
    \/ ReadChat
    \/ AddMessage
    \/ DeleteChat

SpecStorage == InitStorage /\ [][NextStorage]_vars

\* The same program when no caller passes options.parentId to addMessage.
NextDefaultParent ==
    \/ ReadChat
    \/ AddMessage
    \/ ClearMessages
    \/ CreateBranch
    \/ SetActiveBranch
    \/ UpdateBranch
    \/ DeleteBranch

SpecDefaultParent == Init /\ [][NextDefaultParent]_vars

\* ------------------------------------------------------ layout migrations
\* listChats as one step: every <id>.json entry is handed to
\* migrateChatToFolder, whether or not <id>/chat.json exists, and every entry
\* (the folder's, the flat file's) adds a summary to the list.
listChats(store, document) ==
    [store  |-> migrateChatToFolder(store),
     chat   |-> IF store.legacyFile # {} THEN LegacyFileDocument ELSE document,
     listed |-> (IF store.chatJson THEN 1 ELSE 0)
                + (IF store.legacyFile # {} THEN 1 ELSE 0)]

\* The serving process step by step.  pc is "down" while no process runs,
\* "ready" between two requests, and otherwise names the file operation the
\* process is about to perform.  A local variable of a migration (the data it
\* has read) is the content of the file it was read from, which nothing else
\* writes meanwhile.

\* The process starts: initialize() calls migrateFromLegacy().
Start ==
    /\ pc = "down"
    /\ pc' = "migrateFromLegacy"
    /\ UNCHANGED <<schemaVersion, legacyMessages, messages, branches, activeBranchId,
                   nextMessageId, nextBranchId, chatJson, legacyFile, title,
                   legacyDirFile, pending, otherChat, turns>>

\* migrateFromLegacy: fs.writeFileSync(newPath, data), unless newPath exists.
MigrateFromLegacyCopy ==
    /\ pc = "migrateFromLegacy"
    /\ IF legacyDirFile # {} /\ legacyFile = {}
       THEN legacyFile' = legacyDirFile /\ pc' = "unlinkLegacyPath"
       ELSE legacyFile' = legacyFile /\ pc' = "listChats"
    /\ UNCHANGED <<schemaVersion, legacyMessages, messages, branches, activeBranchId,
                   nextMessageId, nextBranchId, chatJson, title,
                   legacyDirFile, pending, otherChat, turns>>

\* migrateFromLegacy: fs.unlinkSync(legacyPath); initialize goes on to listChats().
MigrateFromLegacyUnlink ==
    /\ pc = "unlinkLegacyPath"
    /\ legacyDirFile' = {}
    /\ pc' = "listChats"
    /\ UNCHANGED <<schemaVersion, legacyMessages, messages, branches, activeBranchId,
                   nextMessageId, nextBranchId, chatJson, legacyFile, title,
                   pending, otherChat, turns>>

\* A request for the list of chats.
ListChatsRequest ==
    /\ pc = "ready"
    /\ pc' = "listChats"
    /\ UNCHANGED <<schemaVersion, legacyMessages, messages, branches, activeBranchId,
                   nextMessageId, nextBranchId, chatJson, legacyFile, title,
                   legacyDirFile, pending, otherChat, turns>>

\* listChats: the loop over the entries; an <id>.json entry enters
\* migrateChatToFolder.
ListChatsEntries ==
    /\ pc = "listChats"
    /\ pc' = IF legacyFile # {} THEN "listChats:write" ELSE "ready"
    /\ UNCHANGED <<schemaVersion, legacyMessages, messages, branches, activeBranchId,
                   nextMessageId, nextBranchId, chatJson, legacyFile, title,
                   legacyDirFile, pending, otherChat, turns>>

\* getChat: the check for the old format.
GetChatRequest ==
    /\ pc = "ready"
    /\ pc' = IF legacyFile # {} /\ ~chatJson THEN "getChat:write" ELSE "getChat:read"
    /\ UNCHANGED <<schemaVersion, legacyMessages, messages, branches, activeBranchId,
                   nextMessageId, nextBranchId, chatJson, legacyFile, title,
                   legacyDirFile, pending, otherChat, turns>>

\* migrateChatToFolder: fs.writeFileSync(getChatPath(chatId), data).
MigrateChatToFolderWrite ==
    /\ pc \in {"listChats:write", "getChat:write"}
    /\ writeDocument(LegacyFileDocument)
    /\ chatJson' = TRUE
    /\ pc' = IF pc = "listChats:write" THEN "listChats:unlink" ELSE "getChat:unlink"
    /\ UNCHANGED <<legacyFile, title, legacyDirFile, pending, otherChat, turns>>

\* migrateChatToFolder: fs.unlinkSync(legacyPath); the caller goes on.
MigrateChatToFolderUnlink ==
    /\ pc \in {"listChats:unlink", "getChat:unlink"}
    /\ legacyFile' = {}
    /\ pc' = IF pc = "listChats:unlink" THEN "ready" ELSE "getChat:read"
    /\ UNCHANGED <<schemaVersion, legacyMessages, messages, branches, activeBranchId,
                   nextMessageId, nextBranchId, chatJson, title,
                   legacyDirFile, pending, otherChat, turns>>

\* getChat: chat.json is read, a v1 document is converted and written back.
GetChatRead ==
    /\ pc = "getChat:read"
    /\ nextMessageId + Len(legacyMessages) <= MaxMessages + 1
    /\ IF chatJson
       THEN writeDocument(migrateToTreeStructure(Stored))
       ELSE UNCHANGED <<schemaVersion, legacyMessages, messages, branches, activeBranchId,
                        nextMessageId, nextBranchId>>
    /\ pc' = "ready"
    /\ UNCHANGED <<chatJson, legacyFile, title, legacyDirFile, pending, otherChat, turns>>

\* addMessage on a chat whose folder holds a v2 document: its getChat has
\* nothing to migrate, the handler is one read and one write.
AddMessageWhenReady ==
    /\ pc = "ready"
    /\ chatJson
    /\ schemaVersion = CURRENT_SCHEMA_VERSION
    /\ AddMessage

\* The process dies between two file operations (or between two requests).
Crash ==
    /\ pc # "down"
    /\ pc' = "down"
    /\ UNCHANGED <<schemaVersion, legacyMessages, messages, branches, activeBranchId,
                   nextMessageId, nextBranchId, chatJson, legacyFile, title,
                   legacyDirFile, pending, otherChat, turns>>

\* Before the first start the chat is stored in one place: in the legacy
\* directory, as a flat file, or in its folder.
InitMigration ==
    /\ \/ /\ legacyDirFile \in LegacyFiles \ {{}}
          /\ legacyFile = {}
          /\ chatJson = FALSE
       \/ /\ legacyDirFile = {}
          /\ legacyFile \in LegacyFiles \ {{}}
          /\ chatJson = FALSE
       \/ /\ legacyDirFile = {}
          /\ legacyFile = {}
          /\ chatJson = TRUE
    /\ IF chatJson THEN createChat \/ LegacyDocument ELSE NoFile
    /\ nextMessageId = 1
    /\ nextBranchId = 1
    /\ title = GivenTitle
    /\ pc = "down"
    /\ pending = NoPending
    /\ otherChat = <<>>
    /\ turns = NoTurns

NextMigration ==
    \/ Start
    \/ MigrateFromLegacyCopy
    \/ MigrateFromLegacyUnlink
    \/ ListChatsRequest
    \/ ListChatsEntries
    \/ GetChatRequest
    \/ MigrateChatToFolderWrite
    \/ MigrateChatToFolderUnlink
    \/ GetChatRead
    \/ AddMessageWhenReady
    \/ Crash

SpecMigration == InitMigration /\ [][NextMigration]_vars

\* ---------------------------------------------------------- two writers
\* Two chat ids.  The variables of the document are the file of ChatA,
\* otherChat is the file of ChatB.
ChatA == "chat-a"
ChatB == "chat-b"

\* getChatPath sending every chat id to the same file.
getChatPath_IgnoresId(chatId) == <<ChatA, "chat.json">>

\* getChatPath(chatId): CHATS_DIR/<chatId>/chat.json.
getChatPath(chatId) == <<chatId, "chat.json">>

\* fs.readFileSync(chatPath); the id generators are the process's, not the
\* file's.
readFile(chatPath) ==
    IF chatPath = <<ChatA, "chat.json">>
    THEN Stored
    ELSE [otherChat EXCEPT !.nextMessageId = nextMessageId,
                           !.nextBranchId = nextBranchId]

\* The part of a chat record that is the document.
Document(chat) ==
    [schemaVersion  |-> chat.schemaVersion,
     legacyMessages |-> chat.legacyMessages,
     messages       |-> chat.messages,
     branches       |-> chat.branches,
     activeBranchId |-> chat.activeBranchId]

\* A handler's local variable chat read from the file again when the handler
\* writes.
localChat_ReadsAgain(w) == readFile(getChatPath(pending[w][1].chatId))

\* A handler's local variable chat: what its getChat returned.
localChat(w) ==
    [pending[w][1].chat EXCEPT !.nextMessageId = nextMessageId,
                               !.nextBranchId = nextBranchId]

\* The handler a writer is in, applied to its local chat.
applyHandler(chat, p) ==
    CASE p.op = "addMessage" -> addMessage(chat, p.role, Undefined, Undefined)
      [] p.op = "createBranch" -> createBranch(chat, p.id)

\* The messages the writers add (the role plays no part in what follows).
WriterRoles == {"user"}

\* The first half of a handler: const chat = getChat(chatId).
BeginHandler(w, chatId) ==
    /\ pending[w] = <<>>
    /\ LET chat == readFile(getChatPath(chatId))
       IN  \E p \in {[chatId |-> chatId, op |-> "addMessage", role |-> role,
                       id |-> Undefined, chat |-> chat] : role \in WriterRoles}
                  \cup {[chatId |-> chatId, op |-> "createBranch", role |-> "",
                         id |-> f, chat |-> chat] : f \in ForkPointOptions(chat)} :
               pending' = [pending EXCEPT ![w] = <<p>>]
    /\ UNCHANGED <<schemaVersion, legacyMessages, messages, branches, activeBranchId,
                   nextMessageId, nextBranchId, chatJson, legacyFile, title,
                   legacyDirFile, pc, otherChat, turns>>

\* The second half: the change is made to the local chat, ids are drawn, and
\* fs.writeFileSync(chatPath, ...) replaces the file; a handler that returns
\* {success: false} writes nothing.
FinishHandler(w) ==
    /\ pending[w] # <<>>
    /\ LET p == pending[w][1]
           r == applyHandler(localChat(w), p)
       IN  /\ r.chat.nextMessageId <= MaxMessages + 1
           /\ r.chat.nextBranchId <= MaxBranches + 1
           /\ IF ~r.success
              THEN UNCHANGED <<schemaVersion, legacyMessages, messages, branches,
                               activeBranchId, nextMessageId, nextBranchId, otherChat>>
              ELSE IF getChatPath(p.chatId) = <<ChatA, "chat.json">>
              THEN writeDocument(r.chat) /\ otherChat' = otherChat
              ELSE /\ otherChat' = r.chat
                   /\ nextMessageId' = r.chat.nextMessageId
                   /\ nextBranchId' = r.chat.nextBranchId
                   /\ UNCHANGED <<schemaVersion, legacyMessages, messages, branches,
                                   activeBranchId>>
           /\ title' = IF p.chatId = ChatA /\ p.op = "addMessage"
                       THEN autoTitle(title, r, p.role) ELSE title
    /\ pending' = [pending EXCEPT ![w] = <<>>]
    /\ UNCHANGED <<chatJson, legacyFile, legacyDirFile, pc, turns>>

\* Two fresh chats, each with a writer of its own.
InitTwoChats ==
    /\ createChat
    /\ nextMessageId = 1
    /\ nextBranchId = 1
    /\ chatJson = TRUE
    /\ legacyFile = {}
    /\ title = GivenTitle
    /\ legacyDirFile = {}
    /\ pc = "ready"
    /\ pending = NoPending
    /\ otherChat = NewChat
    /\ turns = NoTurns

ChatOf(w) == IF w = 1 THEN ChatA ELSE ChatB

NextTwoChats ==
    \/ \E w \in Writers : BeginHandler(w, ChatOf(w))
    \/ \E w \in Writers : FinishHandler(w)

SpecTwoChats == InitTwoChats /\ [][NextTwoChats]_vars

\* Two writers on the same chat.
NextRace ==
    \/ \E w \in Writers : BeginHandler(w, ChatA)
    \/ \E w \in Writers : FinishHandler(w)

\* One fresh chat, no handler started.
InitRace ==
    /\ createChat
    /\ nextMessageId = 1
    /\ nextBranchId = 1
    /\ chatJson = TRUE
    /\ legacyFile = {}
    /\ title = GivenTitle
    /\ Quiet

SpecRace == InitRace /\ [][NextRace]_vars

\* ------------------------------------------------------------ turn logging
\* getTurnDir: turns/<String(turnNumber).padStart(4, '0')>, as its four digits
\* (a number below 10000 is padded, not cut).
getTurnDir(turnNumber) ==
    <<(turnNumber \div 1000) % 10, (turnNumber \div 100) % 10,
      (turnNumber \div 10) % 10, turnNumber % 10>>

\* logTurnRequest(chatId, turnNumber, data): request.json of the turn's
\* directory is created or overwritten.
logTurnRequest(dirs, turnNumber, data) ==
    LET turnDir == getTurnDir(turnNumber)
    IN  [d \in DOMAIN dirs \cup {turnDir} |-> IF d = turnDir THEN data ELSE dirs[d]]

\* The user message that opened the turn a branch is in: the last user
\* message on its path (Null before the first).
RECURSIVE lastUserMessage(_, _, _)
lastUserMessage(chat, path, i) ==
    IF i = 0 THEN Null
    ELSE IF path[i] \in DOMAIN chat.messages /\ chat.messages[path[i]].role = "user"
    THEN path[i]
    ELSE lastUserMessage(chat, path, i - 1)

\* What a caller logs for the turn of a branch: the request built from that
\* branch's history.
turnData(chat, branchId) ==
    LET k == findBranchIndex(chat, branchId)
        path == IF k = 0 THEN <<>> ELSE getMessagePath(chat, chat.branches[k].tipMessageId)
    IN  [branchId |-> branchId, userMessageId |-> lastUserMessage(chat, path, Len(path))]

\* A caller numbers the turn with getCurrentTurnNumber(chatId, branchId) and
\* logs the request under that number.
LogTurnRequest ==
    \E branchIdOpt \in BranchIdOptions :
        LET chat == getChat
            r == getCurrentTurnNumber(chatFound, chat, branchIdOpt)
            targetBranchId == IF branchIdOpt = Undefined THEN chat.activeBranchId
                              ELSE branchIdOpt
        IN  /\ Loaded(chat)
            /\ ~r.threw
            /\ persist(chat, title)
            /\ turns' = logTurnRequest(turns, r.turn, turnData(chat, targetBranchId))
            /\ UNCHANGED <<legacyDirFile, pc, pending, otherChat>>

\* Conversations growing on several branches, each turn logged by its caller.
NextTurns ==
    \/ AddMessage
    \/ CreateBranch
    \/ LogTurnRequest

SpecTurns == Init /\ [][NextTurns]_vars

\* The same handlers on a chat created with or without a title.
InitTitle ==
    /\ createChat \/ LegacyDocument
    /\ nextMessageId = 1
    /\ nextBranchId = 1
    /\ chatJson = TRUE
    /\ legacyFile = {}
    /\ title \in {createTitle(titleOpt) : titleOpt \in {NoTitle, GivenTitle, GivenChatTitle}}
    /\ Quiet

SpecTitle == InitTitle /\ [][NextDefaultParent]_vars

TypeOK ==
    /\ schemaVersion \in {LegacySchemaVersion, CURRENT_SCHEMA_VERSION, Undefined}
    /\ chatJson \in BOOLEAN
    /\ legacyFile \in LegacyFiles
    /\ nextMessageId \in 1..(MaxMessages + 1)
    /\ nextBranchId \in 1..(MaxBranches + 1)
    /\ DOMAIN messages \subseteq 1..MaxMessages

\* ------------------------------------------------------------ vocabulary
\* The ids met by following parentId links from id, id itself excluded, in at
\* most n steps (an id absent from the map is met, and ends the walk).
RECURSIVE ParentChain(_, _, _)
ParentChain(msgs, id, n) ==
    IF n = 0 \/ id \notin DOMAIN msgs \/ msgs[id].parentId = Null
    THEN {}
    ELSE {msgs[id].parentId} \cup ParentChain(msgs, msgs[id].parentId, n - 1)

ChainOf(chat, id) == {id} \cup ParentChain(chat.messages, id, Cardinality(DOMAIN chat.messages))

BranchesOf(chat) == {chat.branches[i] : i \in 1..Len(chat.branches)}
BranchIdsOf(chat) == {b.id : b \in BranchesOf(chat)}
BranchById(chat, id) == chat.branches[findBranchIndex(chat, id)]
PathSet(chat, branch) == SeqToSet(getMessagePath(chat, branch.tipMessageId))

\* ------------------------------------------------------------------ C1
\* C1: for every branch with a non-null tip, following parentId links from
\* the tip up to a root never reaches a message id that is absent from
\* chat.messages -- here in the case the claim singles out, where no
\* addMessage call passes an explicit parentId (SpecDefaultParent).
C1_TipChainsResolve ==
    LET chat == getChat
    IN  \A b \in BranchesOf(chat) :
            b.tipMessageId # Null => ChainOf(chat, b.tipMessageId) \subseteq DOMAIN chat.messages

\* ------------------------------------------------------------------ C2
\* C2: the message map is a forest: every message with a non-null parentId
\* has its parent in chat.messages, and parent links contain no cycle; for
\* all messages of the map, on a branch's path or not.
C2_MessagesFormForest ==
    LET chat == getChat
    IN  \A m \in DOMAIN chat.messages :
            /\ chat.messages[m].parentId # Null => chat.messages[m].parentId \in DOMAIN chat.messages
            /\ m \notin ParentChain(chat.messages, m, Cardinality(DOMAIN chat.messages))

\* ------------------------------------------------------------------ C3
\* C3: exactly one branch has isActive = true and activeBranchId is that
\* branch's id, in every state (a v1 document as getChat migrates it); after a
\* successful setActiveBranch(b) that branch is b.
SingleActive(chat) ==
    /\ Cardinality({i \in 1..Len(chat.branches) : chat.branches[i].isActive}) = 1
    /\ \A i \in 1..Len(chat.branches) :
          chat.branches[i].isActive <=> chat.branches[i].id = chat.activeBranchId

C3_ExactlyOneActiveBranch ==
    LET chat == getChat
    IN  /\ SingleActive(chat)
        /\ \A b \in BranchIds :
              LET r == setActiveBranch(chat, b)
              IN  /\ r.success <=> b \in BranchIdsOf(chat)
                  /\ r.success => /\ r.chat.activeBranchId = b
                                  /\ SingleActive(r.chat)

\* A chat with three branches whose active branch is not main: setActiveBranch
\* has switched away from the branch createChat activated.
C3_Witness ==
    /\ schemaVersion = CURRENT_SCHEMA_VERSION
    /\ Len(branches) >= 3
    /\ activeBranchId # BranchMain
    /\ \E i \in 1..Len(branches) : branches[i].id = activeBranchId /\ branches[i].isActive

\* ------------------------------------------------------------------ C4
\* C4: deleteBranch('branch-main', deleteMessages) returns success = false for
\* either flag and leaves the chat unchanged; a branch with id 'branch-main'
\* is present in every state.
C4_MainBranchNeverDeleted ==
    LET chat == getChat
    IN  /\ BranchMain \in BranchIdsOf(chat)
        /\ \A deleteMessages \in BOOLEAN :
              LET r == deleteBranch(chat, BranchMain, deleteMessages)
              IN  ~r.success /\ r.chat = chat

\* Main is not the active branch, it holds messages, and another branch
\* shares them: the state in which deleting main would do the most.
C4_Witness ==
    /\ schemaVersion = CURRENT_SCHEMA_VERSION
    /\ activeBranchId # BranchMain
    /\ \E i, j \in 1..Len(branches) :
          /\ branches[i].id = BranchMain
          /\ branches[j].id # BranchMain
          /\ branches[i].tipMessageId # Null
          /\ branches[j].forkPointMessageId # Null
          /\ ~deleteBranch(getChat, BranchMain, TRUE).success

\* ------------------------------------------------------------------ C5
\* C5: for every branch with a non-null forkPointMessageId, the fork point is
\* in chat.messages and on getMessagePath(chat, tipMessageId), and the tip's
\* parent chain ends at a root message.
C5_ForkPointOnTipPath ==
    LET chat == getChat
    IN  \A b \in BranchesOf(chat) :
            b.forkPointMessageId # Null =>
                /\ b.forkPointMessageId \in DOMAIN chat.messages
                /\ b.forkPointMessageId \in PathSet(chat, b)
                /\ ChainOf(chat, b.tipMessageId) \subseteq DOMAIN chat.messages

\* ------------------------------------------------------------------ C6
\* The branch addMessage targets: options.branchId, or the active branch.
TargetBranchId(chat, branchIdOpt) ==
    IF branchIdOpt = Undefined THEN chat.activeBranchId ELSE branchIdOpt

C7_AddMessageFrame ==
    LET chat == getChat
        before == [i \in 1..Len(chat.branches) |-> getBranchMessages(chat, chat.branches[i].id)]
    IN  \A branchIdOpt \in BranchIdOptions :
          TargetBranchId(chat, branchIdOpt) \in BranchIdsOf(chat) =>
            \A role \in Roles, parentIdOpt \in {Undefined} \cup ParentIdOptions(chat) :
              LET r == addMessage(chat, role, parentIdOpt, branchIdOpt)
                  B == TargetBranchId(chat, branchIdOpt)
              IN  /\ r.success
                  /\ Len(r.chat.branches) = Len(chat.branches)
                  /\ \A i \in 1..Len(chat.branches) :
                        /\ r.chat.branches[i].id = chat.branches[i].id
                        /\ chat.branches[i].id # B =>
                              /\ r.chat.branches[i] = chat.branches[i]
                              /\ getBranchMessages(r.chat, chat.branches[i].id) = before[i]
                  /\ r.chat.activeBranchId = chat.activeBranchId
                  /\ DOMAIN r.chat.messages = DOMAIN chat.messages \cup {r.messageId}
                  /\ \A m \in DOMAIN chat.messages : r.chat.messages[m] = chat.messages[m]

\* Two branches besides main hold messages and the tip of one of them is a
\* message added to it after the other one forked from the shared history.
C7_Witness ==
    /\ schemaVersion = CURRENT_SCHEMA_VERSION
    /\ \E i, j \in 1..Len(branches) :
          /\ i # j
          /\ branches[i].id # BranchMain
          /\ branches[j].tipMessageId # Null
          /\ branches[i].tipMessageId # Null
          /\ branches[i].tipMessageId # branches[j].tipMessageId
          /\ branches[i].tipMessageId \notin PathSet(getChat, branches[j])
          /\ PathSet(getChat, branches[i]) \cap PathSet(getChat, branches[j]) # {}

\* ------------------------------------------------------------------ C8
\* C8: a successful createBranch with fork point f appends exactly one branch
\* whose forkPointMessageId and tipMessageId are f and whose isActive is
\* false, so getBranchMessages(newBranch) is the root-to-f path; messages,
\* existing branches and activeBranchId are unchanged.
C8_CreateBranchStartsAtForkPoint ==
    LET chat == getChat
    IN  \A f \in DOMAIN chat.messages :
            LET r == createBranch(chat, f)
                n == Len(chat.branches)
                path == getMessagePath(chat, f)
            IN  /\ r.success
                /\ Len(r.chat.branches) = n + 1
                /\ SubSeq(r.chat.branches, 1, n) = chat.branches
                /\ r.chat.branches[n + 1] =
                      [id |-> r.branchId, forkPointMessageId |-> f,
                       tipMessageId |-> f, isActive |-> FALSE]
                /\ r.branchId \notin BranchIdsOf(chat)
                /\ getBranchMessages(r.chat, r.branchId) =
                      [i \in 1..Len(path) |-> MessageAt(chat, path[i])]
                /\ r.chat.messages = chat.messages
                /\ r.chat.activeBranchId = chat.activeBranchId

\* The newest branch still sits on its fork point, a message that is not a
\* root and not the tip of main.
C8_Witness ==
    /\ schemaVersion = CURRENT_SCHEMA_VERSION
    /\ Len(branches) >= 2
    /\ LET b == branches[Len(branches)]
       IN  /\ b.id = nextBranchId - 1
           /\ b.forkPointMessageId # Null
           /\ b.tipMessageId = b.forkPointMessageId
           /\ ~b.isActive
           /\ Len(getBranchMessages(getChat, b.id)) >= 2
           /\ branches[1].tipMessageId # b.tipMessageId

\* ------------------------------------------------------------------ C9
\* C9: deleteBranch(b, deleteMessages = true) never removes a message on the
\* root-to-tip path of another branch: getBranchMessages(C) is the same
\* before and after, for every remaining branch C.
C9_DeleteKeepsOtherBranches ==
    LET chat == getChat
    IN  \A b \in BranchIds :
            LET r == deleteBranch(chat, b, TRUE)
            IN  r.success =>
                  \A C \in BranchIdsOf(chat) \ {b} :
                      /\ C \in BranchIdsOf(r.chat)
                      /\ getBranchMessages(r.chat, C) = getBranchMessages(chat, C)
                      /\ \A m \in PathSet(chat, BranchById(chat, C)) \cap DOMAIN chat.messages :
                            m \in DOMAIN r.chat.messages

\* A branch whose messages after the fork point are partly its own and partly
\* on another branch's path: deleting it removes the former, keeps the latter.
C9_Witness ==
    /\ schemaVersion = CURRENT_SCHEMA_VERSION
    /\ \E b \in BranchIdsOf(getChat) \ {BranchMain} :
          LET chat == getChat
              r == deleteBranch(chat, b, TRUE)
              only == SeqToSet(branchOnlyMessagesOf(chat, BranchById(chat, b)))
          IN  /\ r.success
              /\ BranchById(chat, b).forkPointMessageId # Null
              /\ \E m \in only : m \notin DOMAIN r.chat.messages
              /\ \E m \in only : m \in DOMAIN r.chat.messages

\* ----------------------------------------------------------------- C10
\* C10: after a successful deleteBranch(b, deleteMessages = true) every
\* message on b's root-to-tip path and on no other branch's root-to-tip path
\* is gone from chat.messages, for every non-main branch b, created with a
\* fork point or with forkPointMessageId = null.
C10_DeleteRemovesUniquelyOwned ==
    LET chat == getChat
    IN  \A b \in BranchIdsOf(chat) \ {BranchMain} :
            LET r == deleteBranch(chat, b, TRUE)
                owned == {m \in PathSet(chat, BranchById(chat, b)) :
                             \A c \in BranchesOf(chat) : c.id # b => m \notin PathSet(chat, c)}
            IN  r.success /\ \A m \in owned : m \notin DOMAIN r.chat.messages

\* ----------------------------------------------------------------- C11
\* C11: after a successful deleteBranch the deleted id is no longer in
\* chat.branches and the remaining branches keep their relative order; if the
\* deleted branch was the active one, 'branch-main' has isActive = true and
\* activeBranchId is 'branch-main'; if it was not, activeBranchId and every
\* remaining branch's isActive flag are unchanged.
C11_DeleteBranchFallsBackToMain ==
    LET chat == getChat
    IN  \A b \in BranchIds, deleteMessages \in BOOLEAN :
            LET r == deleteBranch(chat, b, deleteMessages)
                k == findBranchIndex(chat, b)
                n == Len(chat.branches)
            IN  r.success =>
                  /\ b \notin BranchIdsOf(r.chat)
                  /\ Len(r.chat.branches) = n - 1
                  /\ \A i \in 1..(n - 1) :
                        r.chat.branches[i].id = chat.branches[IF i < k THEN i ELSE i + 1].id
                  /\ chat.activeBranchId = b =>
                        /\ r.chat.activeBranchId = BranchMain
                        /\ BranchById(r.chat, BranchMain).isActive
                  /\ chat.activeBranchId # b =>
                        /\ r.chat.activeBranchId = chat.activeBranchId
                        /\ \A i \in 1..(n - 1) :
                              r.chat.branches[i].isActive =
                                 chat.branches[IF i < k THEN i ELSE i + 1].isActive

\* The active branch is the middle one of three: deleting it closes the gap
\* in chat.branches and hands the active flag back to main.
C11_Witness ==
    /\ schemaVersion = CURRENT_SCHEMA_VERSION
    /\ Len(branches) = 3
    /\ branches[2].id = activeBranchId
    /\ branches[2].isActive
    /\ LET r == deleteBranch(getChat, activeBranchId, FALSE)
       IN  /\ r.success
           /\ r.chat.activeBranchId = BranchMain
           /\ r.chat.branches[1].isActive
           /\ r.chat.branches[2].id = branches[3].id

\* ----------------------------------------------------------------- C18
\* C18: createChat writes a document at the current schema version with an
\* empty message map and exactly one branch, 'branch-main', with tip and fork
\* point null and isActive true, and activeBranchId 'branch-main'; the getChat
\* that follows returns that same document.
C18_CreateChatIsFresh ==
    [][CreateChat =>
          /\ chatJson'
          /\ schemaVersion' = CURRENT_SCHEMA_VERSION
          /\ messages' = NoMessages
          /\ Len(branches') = 1
          /\ branches'[1] = [id |-> BranchMain, forkPointMessageId |-> Null,
                             tipMessageId |-> Null, isActive |-> TRUE]
          /\ activeBranchId' = BranchMain
          /\ chatFound'
          /\ getChat' = Stored']_vars

\* A fresh document although message ids have been handed out already: an
\* earlier chat was deleted and createChat has run again.
C18_Witness ==
    /\ chatJson
    /\ legacyFile = {}
    /\ Stored = NewChat
    /\ nextMessageId > 1

\* ----------------------------------------------------------------- C19
\* C19: after deleteChat returns success, chatExists is false and getChat
\* returns null, whatever combination of the flat file <id>.json and the
\* folder's chat.json existed before the call.
C19_DeleteChatRemovesChat ==
    LET r == deleteChat(FileStore)
    IN  r.success => /\ ~chatExists(r.store)
                     /\ ~openChat(r.store).chatJson

\* ----------------------------------------------------------------- C12
\* C12: schema migration happens at most once per chat: migrateToTreeStructure
\* applied to a document at the current schema version returns it unchanged
\* (so does it to the document getChat returns), and once getChat has
\* rewritten a v1 document every later getChat returns the same messages,
\* parent links, branches and activeBranchId, and hands out no new id.
C12_MigratesAtMostOnce ==
    /\ [](LET chat == getChat
          IN  /\ chat.schemaVersion = CURRENT_SCHEMA_VERSION
              /\ migrateToTreeStructure(chat) = chat
              /\ schemaVersion = CURRENT_SCHEMA_VERSION =>
                    /\ migrateToTreeStructure(Stored) = Stored
                    /\ chat = Stored)
    /\ [][ReadChat =>
            /\ schemaVersion' = CURRENT_SCHEMA_VERSION
            /\ getChat' = getChat
            /\ Stored' = getChat
            /\ schemaVersion = CURRENT_SCHEMA_VERSION => UNCHANGED vars]_vars

\* A v1 document with three messages that no getChat has read yet: its
\* migration hands out three ids and sets the schema version.
C12_Witness ==
    /\ schemaVersion = LegacySchemaVersion
    /\ Len(legacyMessages) = 3
    /\ getChat.nextMessageId = nextMessageId + 3
    /\ getChat.schemaVersion = CURRENT_SCHEMA_VERSION
    /\ getChat # Stored

\* ----------------------------------------------------------------- C13
\* C13: migrating a v1 chat whose messages array has n entries yields n
\* messages in one linear chain (the first has parentId null, the i-th the new
\* id of the (i-1)-th), a single branch 'branch-main' that is active, has
\* forkPointMessageId null and the last message as its tip (null when
\* n = 0), and getBranchMessages('branch-main') lists the array's entries in
\* the array's order.
C13_MigrationBuildsLinearChain ==
    (chatFound /\ readChatJson.schemaVersion = LegacySchemaVersion) =>
        LET v1 == readChatJson
            chat == migrateToTreeStructure(v1)
            n == Len(v1.legacyMessages)
            newId == [i \in 0..n |-> IF i = 0 THEN Null
                                     ELSE generateMessageId(v1.nextMessageId + i - 1)]
        IN  /\ DOMAIN chat.messages = {newId[i] : i \in 1..n}
            /\ Cardinality(DOMAIN chat.messages) = n
            /\ \A i \in 1..n :
                  chat.messages[newId[i]] = [parentId |-> newId[i - 1],
                                             role |-> v1.legacyMessages[i]]
            /\ chat.branches = <<[id |-> BranchMain, forkPointMessageId |-> Null,
                                  tipMessageId |-> newId[n], isActive |-> TRUE]>>
            /\ chat.activeBranchId = BranchMain
            /\ getBranchMessages(chat, BranchMain) =
                  [i \in 1..n |-> [id |-> newId[i], parentId |-> newId[i - 1],
                                   role |-> v1.legacyMessages[i]]]

\* A v1 array of three entries whose roles alternate, and its migration.
C13_Witness ==
    /\ schemaVersion = LegacySchemaVersion
    /\ legacyMessages = <<"user", "assistant", "user">>
    /\ Len(getBranchMessages(migrateToTreeStructure(Stored), BranchMain)) = 3
    /\ getBranchMessages(migrateToTreeStructure(Stored), BranchMain)[2].role = "assistant"

\* ----------------------------------------------------------------- C14
\* C14: every core operation that takes a branch id (addMessage with
\* options.branchId, getMessages, exportChat, setActiveBranch, updateBranch,
\* deleteBranch) returns success = false when the id is not the id of a branch
\* of the chat, and leaves branches, messages and activeBranchId unchanged.
C14_UnknownBranchIsAnError ==
    LET chat == getChat
    IN  \A b \in BranchIds \ BranchIdsOf(chat) :
            /\ \A role \in Roles :
                  LET r == addMessage(chat, role, Undefined, b)
                  IN  ~r.success /\ r.chat = chat
            /\ \A limit \in {Undefined, 1}, offset \in {0, 1} :
                  ~getMessages(chat, limit, offset, b).success
            /\ \A format \in {"json", "markdown"} :
                  ~exportChat(chat, format, b).success
            /\ ~setActiveBranch(chat, b).success /\ setActiveBranch(chat, b).chat = chat
            /\ ~updateBranch(chat, b).success /\ updateBranch(chat, b).chat = chat
            /\ \A deleteMessages \in BOOLEAN :
                  LET r == deleteBranch(chat, b, deleteMessages)
                  IN  ~r.success /\ r.chat = chat

\* ----------------------------------------------------------------- C15
\* C15: for every maxMessages >= 0 and every branch whose path has n
\* messages, getChatHistory returns exactly min(maxMessages, n) entries: the
\* last ones of the branch's root-to-tip path in path order, each prefixed
\* 'User' or 'Assistant' according to the message's role.
C15_HistoryIsBounded ==
    LET chat == getChat
    IN  \A b \in BranchIdsOf(chat), maxMessages \in 0..(MaxMessages + 1) :
            LET r == getChatHistory(chat, maxMessages, b)
                path == getMessagePath(chat, BranchById(chat, b).tipMessageId)
                n == Len(path)
                k == IF maxMessages < n THEN maxMessages ELSE n
            IN  /\ ~r.threw
                /\ Len(r.lines) = k
                /\ \A i \in 1..k :
                      /\ r.lines[i].id = path[n - k + i]
                      /\ r.lines[i].prefix =
                            (IF MessageAt(chat, path[n - k + i]).role = "user"
                             THEN "User" ELSE "Assistant")

\* ----------------------------------------------------------------- C16
\* The nodes of a nested structure as getTreeStructure returns it, depth first.
RECURSIVE forestNodes(_)
forestNodes(nodes) ==
    IF nodes = <<>>
    THEN <<>>
    ELSE <<Head(nodes)>> \o forestNodes(Head(nodes).children) \o forestNodes(Tail(nodes))

\* C16: each message of chat.messages appears exactly once in the structure
\* getTreeStructure returns, the top-level nodes are exactly the messages
\* with no parent, and the children of a node are exactly the messages whose
\* parentId is the node's id -- messages on no branch's path included.
C16_TreeShowsEveryMessage ==
    LET chat == getChat
        tree == getTreeStructure(chat)
        nodes == forestNodes(tree)
    IN  /\ \A m \in DOMAIN chat.messages :
              Cardinality({i \in 1..Len(nodes) : nodes[i].id = m}) = 1
        /\ {tree[i].id : i \in 1..Len(tree)} =
              {m \in DOMAIN chat.messages : chat.messages[m].parentId = Null}
        /\ \A i \in 1..Len(nodes) :
              {nodes[i].children[j].id : j \in 1..Len(nodes[i].children)} =
                 {m \in DOMAIN chat.messages : chat.messages[m].parentId = nodes[i].id}

\* ----------------------------------------------------------------- C17
\* The user-role messages on the root-to-tip path of a branch.
UserMessagesOn(chat, branchId) ==
    {m \in ChainOf(chat, BranchById(chat, branchId).tipMessageId) \cap DOMAIN chat.messages :
        chat.messages[m].role = "user"}

\* C17: getCurrentTurnNumber equals the number of user-role messages on the
\* root-to-tip path of the given branch (the active branch when branchId is
\* omitted), shared ancestors counted, and is 0 for an unknown chat; a default
\* addMessage of a user message to the branch raises it by exactly one, one of
\* an assistant message leaves it unchanged.
C17_TurnNumberCountsUserMessages ==
    LET chat == getChat
    IN  \A branchIdOpt \in BranchIdOptions :
          /\ getCurrentTurnNumber(FALSE, chat, branchIdOpt) = [threw |-> FALSE, turn |-> 0]
          /\ TargetBranchId(chat, branchIdOpt) \in BranchIdsOf(chat) =>
                LET B == TargetBranchId(chat, branchIdOpt)
                    r == getCurrentTurnNumber(TRUE, chat, branchIdOpt)
                IN  /\ ~r.threw
                    /\ r.turn = Cardinality(UserMessagesOn(chat, B))
                    /\ \A role \in Roles :
                          LET after == getCurrentTurnNumber(TRUE,
                                          addMessage(chat, role, Undefined, branchIdOpt).chat,
                                          branchIdOpt)
                          IN  /\ ~after.threw
                              /\ after.turn = r.turn + (IF role = "user" THEN 1 ELSE 0)

\* ----------------------------------------------------------------- C20
\* C20: getMessagePath(chat, m) for an existing message m ends with m, each
\* element is the parentId of the next one, and it holds only ids present in
\* chat.messages (an ancestor's missing parent is not part of the result), so
\* getBranchMessages never yields an undefined entry; for a missing or null m
\* the result is the empty list.
C20_PathHoldsOnlyExistingMessages ==
    LET chat == getChat
    IN  /\ \A m \in DOMAIN chat.messages :
              LET path == getMessagePath(chat, m)
              IN  /\ Len(path) >= 1
                  /\ path[Len(path)] = m
                  /\ SeqToSet(path) \subseteq DOMAIN chat.messages
                  /\ \A i \in 1..(Len(path) - 1) :
                        /\ path[i + 1] \in DOMAIN chat.messages
                        /\ chat.messages[path[i + 1]].parentId = path[i]
        /\ \A m \in ({Null} \cup KnownMessageIds(chat)) \ DOMAIN chat.messages :
              getMessagePath(chat, m) = <<>>
        /\ \A b \in BranchIdsOf(chat) : ~readsUndefined(getBranchMessages(chat, b))

\* ----------------------------------------------------------------- C21
\* C21: deleteBranch(b, deleteMessages = false) leaves chat.messages exactly
\* as it was and every other branch's tip and fork point unchanged; only the
\* entry of b disappears from chat.branches.
C21_DeleteBranchKeepsMessages ==
    LET chat == getChat
    IN  \A b \in BranchIds :
            LET r == deleteBranch(chat, b, FALSE)
                k == findBranchIndex(chat, b)
                n == Len(chat.branches)
            IN  r.success =>
                  /\ r.chat.messages = chat.messages
                  /\ b \notin BranchIdsOf(r.chat)
                  /\ Len(r.chat.branches) = n - 1
                  /\ \A i \in 1..(n - 1) :
                        LET old == chat.branches[IF i < k THEN i ELSE i + 1]
                            new == r.chat.branches[i]
                        IN  /\ new.id = old.id
                            /\ new.tipMessageId = old.tipMessageId
                            /\ new.forkPointMessageId = old.forkPointMessageId

\* A branch with messages of its own after its fork point, next to two other
\* branches: deleting it with the flag set would remove messages, deleting
\* it without the flag keeps the whole map.
C21_Witness ==
    /\ schemaVersion = CURRENT_SCHEMA_VERSION
    /\ Len(branches) = 3
    /\ \E b \in BranchIdsOf(getChat) \ {BranchMain} :
          /\ deleteBranch(getChat, b, FALSE).success
          /\ deleteBranch(getChat, b, FALSE).chat.messages = messages
          /\ deleteBranch(getChat, b, TRUE).chat.messages # messages

\* ----------------------------------------------------------------- C22
\* The documents one operation after chat: addMessage (to the tip of a
\* branch), createBranch, setActiveBranch, updateBranch and deleteBranch with
\* every input.
LaterChats(chat) ==
    {addMessage(chat, role, Undefined, b).chat : role \in Roles, b \in BranchIdOptions}
    \cup {createBranch(chat, f).chat : f \in ForkPointOptions(chat)}
    \cup {setActiveBranch(chat, b).chat : b \in BranchIds}
    \cup {updateBranch(chat, b).chat : b \in BranchIds}
    \cup {deleteBranch(chat, b, d).chat : b \in BranchIds, d \in BOOLEAN}

\* The messages on no branch's root-to-tip path.
Unreachable(chat) ==
    {m \in DOMAIN chat.messages : \A c \in BranchesOf(chat) : m \notin PathSet(chat, c)}

\* C22: the messages deleteBranch(b, deleteMessages = false) orphans (those
\* on b's path and on no remaining branch's) are unreachable for good: after
\* a later addMessage, createBranch, setActiveBranch, updateBranch or
\* deleteBranch none of them lies on the root-to-tip path of any branch.
\* Stated for the first operation after the deletion, on every reachable chat.
C22_OrphansStayUnreachable ==
    LET chat == getChat
    IN  \A b \in BranchIdsOf(chat) \ {BranchMain} :
            LET r == deleteBranch(chat, b, FALSE)
                orphans == PathSet(chat, BranchById(chat, b)) \cap Unreachable(r.chat)
            IN  r.success =>
                  \A later \in LaterChats(r.chat) :
                      \A m \in orphans :
                          m \in DOMAIN later.messages => m \in Unreachable(later)

\* ----------------------------------------------------------------- C28
\* C28: when addMessage adds the first user-role message of a chat whose
\* title is still createChat's placeholder, the title becomes the one made of
\* that message, whether or not assistant messages were added before it;
\* when the title is not the placeholder, addMessage leaves it as it is.
C28_FirstUserMessageNamesChat ==
    LET chat == getChat
    IN  \A role \in Roles, branchIdOpt \in BranchIdOptions :
            LET r == addMessage(chat, role, Undefined, branchIdOpt)
                after == autoTitle(title, r, role)
                firstUserMessage ==
                    /\ role = "user"
                    /\ \A m \in DOMAIN chat.messages : chat.messages[m].role # "user"
            IN  r.success =>
                  /\ title = DefaultTitle /\ firstUserMessage => after = FirstWordsTitle
                  /\ title # DefaultTitle => after = title

C29_CreateBranchRejectsUnknown ==
    LET chat == getChat
    IN  /\ \A f \in (1..(MaxMessages + 1)) \ DOMAIN chat.messages :
              LET r == createBranchOf(chatFound, chat, f)
              IN  ~r.success /\ r.chat = chat
        /\ ~chatFound =>
              \A f \in {Undefined, Null} \cup (1..(MaxMessages + 1)) :
                  LET r == createBranchOf(chatFound, chat, f)
                  IN  ~r.success /\ r.chat = chat

\* A chat with a message, asked to fork at the id of a message an earlier
\* chat document held: the id was handed out once and is not a key now.
C29_Witness ==
    /\ chatFound
    /\ schemaVersion = CURRENT_SCHEMA_VERSION
    /\ messages # NoMessages
    /\ \E f \in KnownMessageIds(getChat) \ DOMAIN messages :
          /\ ~createBranchOf(chatFound, getChat, f).success
          /\ createBranchOf(chatFound, getChat, f).chat = Stored

\* ----------------------------------------------------------------- C27
\* C27: turn logging is per branch and per turn: what was logged for a turn
\* numbered on one branch is never replaced by logging a turn numbered on
\* another branch, and on one branch successive turns never share a turn
\* directory.  Hence a directory that holds the request of one turn (opened
\* by one user message) holds the request of that turn from then on.
C27_TurnDirectoryKeepsItsTurn ==
    [][\A d \in DOMAIN turns :
          /\ d \in DOMAIN turns'
          /\ turns'[d].userMessageId = turns[d].userMessageId]_vars

\* ----------------------------------------------------------------- C23
\* What getChat returns of the conversation: the roles along the main branch.
Transcript ==
    LET msgs == getBranchMessages(getChat, BranchMain)
    IN  [i \in 1..Len(msgs) |-> msgs[i].role]

\* C23: migrateChatToFolder and migrateFromLegacy unlink the old file only
\* after the new one is written, so at every step boundary, a crash between
\* two steps included, an artifact with the chat's complete data exists and
\* a later getChat returns the chat: no file operation of the two migrations
\* and no crash leaves the chat without a file, and once getChat returns the
\* chat it returns the same conversation after the step.
C23_MigrationKeepsTheChat ==
    [][(\/ MigrateFromLegacyCopy
        \/ MigrateFromLegacyUnlink
        \/ MigrateChatToFolderWrite
        \/ MigrateChatToFolderUnlink
        \/ Crash) =>
          /\ legacyDirFile' # {} \/ legacyFile' # {} \/ chatJson'
          /\ chatFound => chatFound' /\ Transcript' = Transcript]_vars

\* ----------------------------------------------------------------- C24
\* C24: once <id>/chat.json exists, no operation puts the content of a
\* left-over <id>.json in its place: with both files present, listChats
\* (on request, or as the last call of initialize) leaves the folder's
\* document as it is and lists the chat once.
C24_ListChatsKeepsFolderCopy ==
    pc \in {"down", "ready"} /\ chatJson /\ legacyFile # {} =>
        LET r == listChats(FileStore, Stored)
        IN  /\ r.chat = Stored
            /\ r.listed = 1

C26_LastWriterWins ==
    [][\A w \in Writers :
          FinishHandler(w) /\ applyHandler(localChat(w), pending[w][1]).success =>
              LET p == pending[w][1]
              IN  /\ Document(Stored') = Document(applyHandler(localChat(w), p).chat)
                  /\ \A m \in DOMAIN messages \ DOMAIN p.chat.messages :
                        m \notin DOMAIN messages'
                  /\ \A b \in BranchIdsOf(Stored) \ BranchIdsOf(p.chat) :
                        b \notin BranchIdsOf(Stored')
                  /\ SingleActive(Stored')
                  /\ \A b \in BranchesOf(Stored') :
                        b.tipMessageId = Null \/ b.tipMessageId \in DOMAIN messages']_vars

\* Both writers are done and an id that was handed out is in neither the
\* message map nor any tip: the message was written once and written over.
C26_Witness ==
    /\ pending = NoPending
    /\ otherChat = <<>>
    /\ messages # NoMessages
    /\ \E m \in KnownMessageIds(Stored) : m \notin DOMAIN messages
    /\ \E b \in 1..(nextBranchId - 1) : b \notin BranchIdsOf(Stored)

====
